---- MODULE Spec2Model ----
(***************************************************************************)
(* The material-contract chaincode (org.materialnet.materialcontract):     *)
(* the MaterialContract entity, the ContractList over the world state and  *)
(* the transactions issue, selectContract and signContract and the query   *)
(* transactions queryOwner, queryPartial and queryNamed.                   *)
(*                                                                         *)
(* ledger  the world state: a function from ledger keys to stored          *)
(*         (serialized) contracts; a key outside its domain has no entry.  *)
(* last    the last invocation: its name, the caller's MSP id, its         *)
(*         arguments, how it ended ("ok" or the kind of failure), the      *)
(*         number of writes it made and, for a query, what it returned.    *)
(***************************************************************************)
EXTENDS Integers, Sequences, FiniteSets, TLC

VARIABLES ledger, last

vars == <<ledger, last>>

(***************************************************************************)
(* Bounds of the model.                                                    *)
(***************************************************************************)
\* contracts the world state holds at most: no issue that would add one more
\* is submitted
MaxContracts == 1

\* material numbers (transaction arguments are strings)
MaterialNumbers == {"1001", "1002"}
\* issuers and owners
Parties == {"MagnetoCorp", "DigiBank"}
\* organisations (MSP ids) of callers, and the issuingOwnerMSP argument
Orgs == {"MagnetoCorpMSP", "DigiBankMSP"}
MaterialTypes == {"Coal"}
ArrivalTimes == {"2024-01-01"}
\* rewardValue arguments, as character sequences: a number, a negative number, text
RewardInputs == {<<"5">>, <<"-", "5">>, <<"a">>}
\* queryname arguments: the names of the switch of queryNamed, and one it lacks
QueryNames == {"redeemed", "trading", "value", "signed"}

(***************************************************************************)
(* JavaScript values.                                                      *)
(***************************************************************************)
\* the value of a property an object does not have; as a key part it is one
\* attribute value, the same for every object, that no material number equals
Undefined == "undefined"
Num(n) == [t |-> "number", v |-> n]
NaN == [t |-> "NaN", v |-> 0]
\* JSON null
Null == [t |-> "null", v |-> 0]

Digits == {"0", "1", "2", "3", "4", "5", "6", "7", "8", "9"}

DigitValue(c) ==
    CASE c = "0" -> 0 [] c = "1" -> 1 [] c = "2" -> 2 [] c = "3" -> 3
      [] c = "4" -> 4 [] c = "5" -> 5 [] c = "6" -> 6 [] c = "7" -> 7
      [] c = "8" -> 8 [] c = "9" -> 9

\* the number of leading digits of s
RECURSIVE LeadingDigits(_)
LeadingDigits(s) ==
    IF s = <<>> \/ Head(s) \notin Digits THEN 0 ELSE 1 + LeadingDigits(Tail(s))

\* the value of the first n characters of s, all digits
RECURSIVE DigitsValue(_, _)
DigitsValue(s, n) ==
    IF n = 0 THEN 0 ELSE 10 * DigitsValue(s, n - 1) + DigitValue(s[n])

\* parseInt(string): an optional sign, then the longest run of digits; what
\* follows the digits is ignored; NaN when there is no digit
parseInt(s) ==
    LET signed == s # <<>> /\ Head(s) \in {"-", "+"}
        body == IF signed THEN Tail(s) ELSE s
        n == LeadingDigits(body)
        value == DigitsValue(body, n)
    IN IF n = 0 THEN NaN
       ELSE IF signed /\ Head(s) = "-" THEN Num(0 - value) ELSE Num(value)

\* obj[f], undefined when obj has no property f
Field(obj, f) == IF f \in DOMAIN obj THEN obj[f] ELSE Undefined

\* obj with obj[f] = v
SetField(obj, f, v) == [g \in DOMAIN obj \cup {f} |-> IF g = f THEN v ELSE obj[g]]

\* Object.assign(target, source)
ObjectAssign(target, source) ==
    [g \in DOMAIN target \cup DOMAIN source |->
        IF g \in DOMAIN source THEN source[g] ELSE target[g]]

(***************************************************************************)
(* ledger-api: State and StateList, the base classes of MaterialContract   *)
(* and ContractList (CompositeKey, EntityCodec and EntityStore).           *)
(***************************************************************************)
KeyDelimiter == ":"

\* State.makeKey(keyParts): the parts joined by the delimiter
RECURSIVE makeKey(_)
makeKey(keyParts) ==
    IF Len(keyParts) <= 1 THEN keyParts
    ELSE <<Head(keyParts), KeyDelimiter>> \o makeKey(Tail(keyParts))

\* State.splitKey(key): the parts of a joined key
RECURSIVE splitKey(_)
splitKey(key) ==
    IF Len(key) <= 1 THEN key
    ELSE IF Head(key) = KeyDelimiter THEN splitKey(Tail(key))
    ELSE <<Head(key)>> \o splitKey(Tail(key))

\* new State(stateClass, keyParts): the class tag, the key, no lifecycle state yet
State(stateClass, keyParts) ==
    [class |-> stateClass, key |-> makeKey(keyParts), currentState |-> Null]

getSplitKey(state) == splitKey(state.key)

\* the ledger key of a list's entry: the list's name, then the attributes
createCompositeKey(objectType, attributes) == <<objectType>> \o attributes

\* JSON.stringify of a property value: NaN is written as null
JSONValue(v) == IF v = NaN THEN Null ELSE v

\* State.serialize(object): every property of the object, class tag and key included
serialize(object) ==
    [f \in DOMAIN object |->
        IF f = "rewardValue" THEN JSONValue(object[f]) ELSE object[f]]

\* a list method has put an entry: the world state after the put, one write
Ok(L) == [result |-> "ok", ledger |-> L, puts |-> 1]

\* a throw before any put: the world state as it was found, no write
Failure(kind, L) == [result |-> kind, ledger |-> L, puts |-> 0]

(***************************************************************************)
(* MaterialContract (material.js).                                         *)
(***************************************************************************)
ISSUED == 1
TRADING == 2
SIGNED == 3

getClass == "org.materialnet.materialcontract"

\* new MaterialContract(obj): the key parts are obj.issuer and obj.number, then
\* every property of obj is copied onto the new object (a key or class property
\* of obj replaces the one the base constructor has just set)
MaterialContract(obj) ==
    ObjectAssign(State(getClass, <<Field(obj, "issuer"), Field(obj, "number")>>), obj)

getIssuer(mc) == mc.issuer

setIssuer(mc, newIssuer) == SetField(mc, "issuer", newIssuer)

getOwner(mc) == Field(mc, "owner")

setOwnerMSP(mc, mspid) == SetField(mc, "mspid", mspid)

getOwnerMSP(mc) == Field(mc, "mspid")

setOwner(mc, newOwner) == SetField(mc, "owner", newOwner)

setIssued(mc) == SetField(mc, "currentState", ISSUED)

setTrading(mc) == SetField(mc, "currentState", TRADING)

setSigned(mc) == SetField(mc, "currentState", SIGNED)

isIssued(mc) == mc.currentState = ISSUED

\* isTrading testing for "not ISSUED" in place of "TRADING"
isTrading_NotIssued(mc) == mc.currentState # ISSUED

isTrading(mc) == mc.currentState = TRADING

isSigned(mc) == mc.currentState = SIGNED

\* JSON.stringify(this)
toBuffer(mc) == serialize(mc)

createInstance(issuer, materialNumber, matetialType, arrivalTime, rewardValue) ==
    MaterialContract([issuer |-> issuer,
                      materialNumber |-> materialNumber,
                      matetialType |-> matetialType,
                      arrivalTime |-> arrivalTime,
                      rewardValue |-> rewardValue])

\* State.deserializeClass(data, MaterialContract): the parsed object, constructed anew
deserialize(data) == MaterialContract(data)

(***************************************************************************)
(* ContractList (materialContractlist.js) over StateList.                  *)
(***************************************************************************)
ListName == "org.materialnet.materialcontractlist"

\* the classes the list was told to use
supportedClasses == {getClass}

\* addState without its test for an entry under the key: a plain put
addState_Overwrite(L, state) ==
    LET key == createCompositeKey(ListName, getSplitKey(state))
    IN Ok([k \in DOMAIN L \cup {key} |-> IF k = key THEN serialize(state) ELSE L[k]])

\* StateList.addState(state): create, failing on a key that has an entry
addState(L, state) ==
    LET key == createCompositeKey(ListName, getSplitKey(state))
    IN IF key \in DOMAIN L THEN Failure("DuplicateKey", L)
       ELSE Ok([k \in DOMAIN L \cup {key} |-> IF k = key THEN serialize(state) ELSE L[k]])

\* StateList.getState(key): read, failing on a key that has no entry
getState(L, key) ==
    LET ledgerKey == createCompositeKey(ListName, splitKey(key))
    IN IF ledgerKey \notin DOMAIN L THEN [result |-> "NotFound"]
       ELSE IF L[ledgerKey].class \notin supportedClasses
            THEN [result |-> "DeserializationError"]
       ELSE [result |-> "ok", state |-> deserialize(L[ledgerKey])]

\* StateList.updateState(state): overwrite, failing on a key that has no entry
updateState(L, state) ==
    LET key == createCompositeKey(ListName, getSplitKey(state))
    IN IF key \notin DOMAIN L THEN Failure("NotFound", L)
       ELSE Ok([L EXCEPT ![key] = serialize(state)])

addMaterialContract(L, materialContract) == addState(L, materialContract)

getMaterialContract(L, materialContractKey) == getState(L, materialContractKey)

updateMaterialContract(L, materialContract) == updateState(L, materialContract)

\* a call list[method](key) of a reading method: a name the list does not
\* define is no function, and the call throws a TypeError
CallGet(method, L, key) ==
    CASE method = "getMaterialContract" -> getMaterialContract(L, key)
      [] method = "getState" -> getState(L, key)
      [] OTHER -> [result |-> "TypeError"]

\* a call list[method](state) of a writing method
CallPut(method, L, state) ==
    CASE method = "addMaterialContract" -> addMaterialContract(L, state)
      [] method = "updateMaterialContract" -> updateMaterialContract(L, state)
      [] method = "addState" -> addState(L, state)
      [] method = "updateState" -> updateState(L, state)
      [] OTHER -> Failure("TypeError", L)

(***************************************************************************)
(* MaterialContractContract (materialContractContract.js): the             *)
(* transactions.  Each takes the world state L and the caller's MSP id     *)
(* and gives how the invocation ends and the world state it leaves; an     *)
(* invocation that throws leaves the world state as it found it.           *)
(***************************************************************************)
\* issue recording the caller's MSP id, in place of the issuer, as the owner
issue_OwnerIsCaller(L, mspid, issuer, materialNumber, matetialType, arrivalTime, rewardValue) ==
    LET created == createInstance(issuer, materialNumber, matetialType, arrivalTime,
                                  parseInt(rewardValue))
        issued == setIssued(created)
        withMSP == setOwnerMSP(issued, mspid)
        materialContract == setOwner(withMSP, mspid)
    IN CallPut("addMaterialContract", L, materialContract)

issue(L, mspid, issuer, materialNumber, matetialType, arrivalTime, rewardValue) ==
    LET created == createInstance(issuer, materialNumber, matetialType, arrivalTime,
                                  parseInt(rewardValue))
        issued == setIssued(created)
        withMSP == setOwnerMSP(issued, mspid)
        materialContract == setOwner(withMSP, issuer)
    IN CallPut("addMaterialContract", L, materialContract)

\* SelectPromote without its test of the state: every select sets TRADING
SelectPromote_Unguarded(materialContract) == setTrading(materialContract)

\* the first select moves the contract from ISSUED to TRADING
SelectPromote(materialContract) ==
    IF isIssued(materialContract) THEN setTrading(materialContract) ELSE materialContract

\* SelectTransfer setting the issuer, in place of the owner, to the new owner
SelectTransfer_AsIssuer(materialContract, newOwner, mspid) ==
    setOwnerMSP(setIssuer(materialContract, newOwner), mspid)

\* the new owner and the caller's MSP id, on the contract in memory
SelectTransfer(materialContract, newOwner, mspid) ==
    setOwnerMSP(setOwner(materialContract, newOwner), mspid)

\* selectContract writing the promoted contract before it tests the owner
selectContract_WriteFirst(L, mspid, issuer, materialNumber, currentOwner, newOwner) ==
    LET materialKey == makeKey(<<issuer, materialNumber>>)
        got == CallGet("getMaterialContract", L, materialKey)
    IN IF got.result # "ok" THEN Failure(got.result, L)
       ELSE LET promoted == SelectPromote(got.state)
                written == CallPut("updateMaterialContract", L, promoted)
            IN IF getOwner(got.state) # currentOwner
               THEN [result |-> "OwnershipMismatch", ledger |-> written.ledger,
                     puts |-> written.puts]
               ELSE IF isTrading(promoted)
               THEN CallPut("updateMaterialContract", L,
                            SelectTransfer(promoted, newOwner, mspid))
               ELSE Failure("InvalidState", L)

selectContract(L, mspid, issuer, materialNumber, currentOwner, newOwner) ==
    LET materialKey == makeKey(<<issuer, materialNumber>>)
        got == CallGet("getMaterialContract", L, materialKey)
    IN IF got.result # "ok" THEN Failure(got.result, L)
       ELSE IF getOwner(got.state) # currentOwner THEN Failure("OwnershipMismatch", L)
       ELSE LET promoted == SelectPromote(got.state)
            IN IF isTrading(promoted)
               THEN CallPut("updateMaterialContract", L,
                            SelectTransfer(promoted, newOwner, mspid))
               ELSE Failure("InvalidState", L)

\* the contract goes back to its issuer, under the MSP id given, and is SIGNED
SignTransfer(materialContract, issuingOwnerMSP) ==
    setSigned(setOwnerMSP(setOwner(materialContract, getIssuer(materialContract)),
                          issuingOwnerMSP))

signContract(L, mspid, issuer, materialNumber, signingOwner, issuingOwnerMSP) ==
    LET materialKey == makeKey(<<issuer, materialNumber>>)
        got == CallGet("getmaterial", L, materialKey)
    IN IF got.result # "ok" THEN Failure(got.result, L)
       ELSE IF isSigned(got.state) THEN Failure("AlreadySigned", L)
       ELSE IF getOwnerMSP(got.state) # mspid THEN Failure("Unauthorized", L)
       ELSE IF isTrading(got.state) /\ getIssuer(got.state) = signingOwner
            THEN CallPut("updatematerial", L, SignTransfer(got.state, issuingOwnerMSP))
       ELSE Failure("InvalidState", L)

(***************************************************************************)
(* QueryUtils (queries.js, the QueryLayer) and the query transactions.     *)
(* A query reads the entries of one namespace: those whose ledger key      *)
(* starts with the name the QueryUtils object was constructed with.  A     *)
(* row of a result is the ledger key and the stored record.  queryHistory  *)
(* and queryAdhoc, which no property below concerns, are left out.         *)
(***************************************************************************)
\* the name every query transaction constructs its QueryUtils with
QueryListName == "org.materialnet.material"

\* the rows of the entries of L under the keys ks
Rows(L, ks) == {[Key |-> k, Record |-> L[k]] : k \in ks}

\* one comparison of a selector: the field, "eq" or "gt", the value
Condition(field, op, value) == [field |-> field, op |-> op, value |-> value]

\* a stored record matches a selector (a set of comparisons) when it has every
\* field compared and every comparison holds; the empty selector matches all
Matches(record, selector) ==
    \A c \in selector :
        /\ c.field \in DOMAIN record
        /\ IF c.op = "eq" THEN record[c.field] = c.value
           ELSE record[c.field] > c.value

\* QueryUtils.queryByAdhoc(selector): the entries of the namespace that match
queryByAdhoc(L, name, selector) ==
    Rows(L, {k \in DOMAIN L : k[1] = name /\ Matches(L[k], selector)})

\* QueryUtils.queryKeyByOwner(owner): the entries whose owner field is owner
queryKeyByOwner(L, name, owner) ==
    queryByAdhoc(L, name, {Condition("owner", "eq", owner)})

\* QueryUtils.queryKeyByPartial(prefix): the entries whose key starts with the
\* namespace and then the attribute prefix
queryKeyByPartial(L, name, prefix) ==
    Rows(L, {k \in DOMAIN L : Len(k) >= 2 /\ k[1] = name /\ k[2] = prefix})

\* a query has run and returned rows; it writes nothing
QueryOk(rows, L) ==
    [result |-> "ok", rows |-> rows, queried |-> TRUE, ledger |-> L, puts |-> 0]

\* a query transaction has thrown before running any query
QueryFailure(kind, L) ==
    [result |-> kind, rows |-> {}, queried |-> FALSE, ledger |-> L, puts |-> 0]

queryOwner(L, owner) == QueryOk(queryKeyByOwner(L, QueryListName, owner), L)

queryPartial(L, prefix) == QueryOk(queryKeyByPartial(L, QueryListName, prefix), L)

\* the selector the switch of queryNamed builds for a name it has a case for
NamedSelector(queryname) ==
    CASE queryname = "redeemed" -> {Condition("currentState", "eq", 4)}
      [] queryname = "trading" -> {Condition("currentState", "eq", 3)}
      [] queryname = "value" -> {Condition("faceValue", "gt", 4000000)}

\* queryNamed whose default case falls through to the query, with the empty
\* selector it starts from
queryNamed_NoDefault(L, queryname) ==
    IF queryname \in {"redeemed", "trading", "value"}
    THEN QueryOk(queryByAdhoc(L, QueryListName, NamedSelector(queryname)), L)
    ELSE QueryOk(queryByAdhoc(L, QueryListName, {}), L)

\* the switch over the query's name, then the query with the selector built;
\* the default case throws 'invalid named query supplied'
queryNamed(L, queryname) ==
    IF queryname \in {"redeemed", "trading", "value"}
    THEN QueryOk(queryByAdhoc(L, QueryListName, NamedSelector(queryname)), L)
    ELSE QueryFailure("UnknownNamedQuery", L)

(***************************************************************************)
(* The state machine: one action per transaction.                          *)
(***************************************************************************)
EmptyLedger == [k \in {} |-> Null]

Init ==
    /\ ledger = EmptyLedger
    /\ last = [op |-> "none", result |-> "none"]

Issue ==
    \E mspid \in Orgs, issuer \in Parties, materialNumber \in MaterialNumbers,
       matetialType \in MaterialTypes, arrivalTime \in ArrivalTimes,
       rewardValue \in RewardInputs :
        LET r == issue(ledger, mspid, issuer, materialNumber, matetialType,
                       arrivalTime, rewardValue)
        IN /\ Cardinality(DOMAIN r.ledger) <= MaxContracts
           /\ ledger' = r.ledger
           /\ last' = [op |-> "issue", mspid |-> mspid, issuer |-> issuer,
                       materialNumber |-> materialNumber,
                       matetialType |-> matetialType, arrivalTime |-> arrivalTime,
                       rewardValue |-> rewardValue, result |-> r.result,
                       puts |-> r.puts]

SelectContract ==
    \E mspid \in Orgs, issuer \in Parties, materialNumber \in MaterialNumbers,
       currentOwner \in Parties, newOwner \in Parties :
        LET r == selectContract(ledger, mspid, issuer, materialNumber,
                                currentOwner, newOwner)
        IN /\ ledger' = r.ledger
           /\ last' = [op |-> "select", mspid |-> mspid, issuer |-> issuer,
                       materialNumber |-> materialNumber,
                       currentOwner |-> currentOwner, newOwner |-> newOwner,
                       result |-> r.result, puts |-> r.puts]

SignContract ==
    \E mspid \in Orgs, issuer \in Parties, materialNumber \in MaterialNumbers,
       signingOwner \in Parties, issuingOwnerMSP \in Orgs :
        LET r == signContract(ledger, mspid, issuer, materialNumber,
                              signingOwner, issuingOwnerMSP)
        IN /\ ledger' = r.ledger
           /\ last' = [op |-> "sign", mspid |-> mspid, issuer |-> issuer,
                       materialNumber |-> materialNumber,
                       signingOwner |-> signingOwner,
                       issuingOwnerMSP |-> issuingOwnerMSP, result |-> r.result,
                       puts |-> r.puts]

QueryOwner ==
    \E owner \in Parties :
        LET r == queryOwner(ledger, owner)
        IN /\ ledger' = r.ledger
           /\ last' = [op |-> "queryOwner", owner |-> owner, result |-> r.result,
                       rows |-> r.rows, queried |-> r.queried, puts |-> r.puts]

QueryPartial ==
    \E prefix \in Parties :
        LET r == queryPartial(ledger, prefix)
        IN /\ ledger' = r.ledger
           /\ last' = [op |-> "queryPartial", prefix |-> prefix, result |-> r.result,
                       rows |-> r.rows, queried |-> r.queried, puts |-> r.puts]

QueryNamed ==
    \E queryname \in QueryNames :
        LET r == queryNamed(ledger, queryname)
        IN /\ ledger' = r.ledger
           /\ last' = [op |-> "queryNamed", queryname |-> queryname,
                       result |-> r.result, rows |-> r.rows,
                       queried |-> r.queried, puts |-> r.puts]

Next ==
    \/ Issue
    \/ SelectContract
    \/ SignContract
    \/ QueryOwner
    \/ QueryPartial
    \/ QueryNamed

Spec == Init /\ [][Next]_vars

(***************************************************************************)
(* SpecWorld: the transactions on a world state that already holds         *)
(* contracts.  The world state belongs to the host ledger and outlives the *)
(* chaincode that runs against it; SpecWorld starts from any world state   *)
(* of at most MaxContracts contracts, each stored under the composite key  *)
(* of its issuer and material number, in any lifecycle state, as the       *)
(* lifecycle ISSUED -> TRADING -> SIGNED leaves it.  The empty world       *)
(* state is one of them, so every behaviour of Spec is one of SpecWorld.   *)
(***************************************************************************)
WorldContract(issuer, materialNumber, state, owner, mspid) ==
    [class |-> getClass,
     key |-> makeKey(<<issuer, materialNumber>>),
     currentState |-> state,
     issuer |-> issuer,
     materialNumber |-> materialNumber,
     matetialType |-> "Coal",
     arrivalTime |-> "2024-01-01",
     rewardValue |-> Num(5),
     mspid |-> mspid,
     owner |-> owner]

\* only a TRADING contract is owned by someone other than its issuer
WorldContracts ==
    {c \in {WorldContract(i, n, st, o, m) :
                i \in Parties, n \in MaterialNumbers, m \in Orgs,
                st \in {ISSUED, TRADING, SIGNED}, o \in Parties} :
        c.currentState = TRADING \/ c.owner = c.issuer}

WorldKey(c) == createCompositeKey(ListName, splitKey(c.key))

RECURSIVE WorldStates(_)
WorldStates(n) ==
    IF n = 0 THEN {EmptyLedger}
    ELSE LET smaller == WorldStates(n - 1)
         IN smaller \cup
            UNION {{[k \in DOMAIN L \cup {WorldKey(c)} |->
                        IF k = WorldKey(c) THEN c ELSE L[k]] :
                    c \in {d \in WorldContracts : WorldKey(d) \notin DOMAIN L}} :
                   L \in smaller}

InitWorld ==
    /\ ledger \in WorldStates(MaxContracts)
    /\ last = [op |-> "none", result |-> "none"]

SpecWorld == InitWorld /\ [][Next]_vars

(***************************************************************************)
(* Properties.                                                             *)
(***************************************************************************)
\* the ledger keys of the contracts of L issued as (issuer, materialNumber)
ContractsOf(L, issuer, materialNumber) ==
    {k \in DOMAIN L : L[k].issuer = issuer /\ L[k].materialNumber = materialNumber}

\* the composite key built from (issuer, materialNumber), as a read addresses it
KeyOf(issuer, materialNumber) ==
    createCompositeKey(ListName, splitKey(makeKey(<<issuer, materialNumber>>)))

\* s is a non-negative integer written in decimal
IsDecimal(s) == s # <<>> /\ \A i \in 1..Len(s) : s[i] \in Digits

\* C1: the lifecycle state of a stored contract never regresses: no entry is
\* removed, no entry's state decreases along ISSUED < TRADING < SIGNED (so
\* SIGNED stays SIGNED and TRADING never becomes ISSUED), and an entry is
\* TRADING after a step only if it was ISSUED or TRADING before it.
C1_StateNeverRegresses ==
    [][/\ \A k \in DOMAIN ledger :
            /\ k \in DOMAIN ledger'
            /\ ledger'[k].currentState >= ledger[k].currentState
       /\ \A k \in DOMAIN ledger' :
            ledger'[k].currentState = TRADING =>
                /\ k \in DOMAIN ledger
                /\ ledger[k].currentState \in {ISSUED, TRADING}]_vars

\* a select has just moved a contract to TRADING
C1_Witness ==
    /\ last.op = "select"
    /\ last.result = "ok"
    /\ KeyOf(last.issuer, last.materialNumber) \in DOMAIN ledger
    /\ ledger[KeyOf(last.issuer, last.materialNumber)].currentState = TRADING

\* C2: after a successful issue(I, N, T, A, R) by a caller of organization G,
\* reading the ledger at the composite key built from (I, N) returns an entity
\* with state ISSUED, owner I, owningOrg G and rewardValue R.
C2_IssueThenRead ==
    (last.op = "issue" /\ last.result = "ok" /\ IsDecimal(last.rewardValue)) =>
        LET got == getState(ledger, makeKey(<<last.issuer, last.materialNumber>>))
        IN /\ got.result = "ok"
           /\ got.state.currentState = ISSUED
           /\ got.state.owner = last.issuer
           /\ got.state.mspid = last.mspid
           /\ got.state.rewardValue = parseInt(last.rewardValue)

C4_SelectSucceeds ==
    [][last'.op = "select" =>
       \A k \in ContractsOf(ledger, last'.issuer, last'.materialNumber) :
        (/\ last'.op = "select"
         /\ ledger[k].currentState \in {ISSUED, TRADING}
         /\ ledger[k].owner = last'.currentOwner)
        => /\ last'.result = "ok"
           /\ k \in DOMAIN ledger'
           /\ ledger'[k].currentState = TRADING
           /\ ledger'[k].owner = last'.newOwner
           /\ ledger'[k].mspid = last'.mspid]_vars

\* C5: a sign on a TRADING contract, by a caller of the stored owningOrg and
\* with signingOwner the contract's issuer, succeeds: afterwards the contract
\* is SIGNED, owned by its issuer, and its owningOrg is issuingOrgTag.
C5_SignSucceeds ==
    [][last'.op = "sign" =>
       \A k \in ContractsOf(ledger, last'.issuer, last'.materialNumber) :
        (/\ last'.op = "sign"
         /\ ledger[k].currentState = TRADING
         /\ ledger[k].mspid = last'.mspid
         /\ last'.signingOwner = ledger[k].issuer)
        => /\ last'.result = "ok"
           /\ k \in DOMAIN ledger'
           /\ ledger'[k].currentState = SIGNED
           /\ ledger'[k].owner = ledger[k].issuer
           /\ ledger'[k].mspid = last'.issuingOwnerMSP]_vars

\* C6: select fails with OwnershipMismatch whenever currentOwner differs from
\* the owner stored for the contract, in any lifecycle state, and then leaves
\* the ledger as it was.
C6_OwnershipMismatch ==
    [][last'.op = "select" =>
       \A k \in ContractsOf(ledger, last'.issuer, last'.materialNumber) :
        (last'.op = "select" /\ ledger[k].owner # last'.currentOwner)
        => (last'.result = "OwnershipMismatch" /\ ledger' = ledger)]_vars

\* C7: sign fails with Unauthorized when the caller's organization differs
\* from the owningOrg stored for the not yet SIGNED contract, and with
\* AlreadySigned when the stored state is SIGNED; a contract becomes SIGNED
\* only through a sign by the organization stored as its owningOrg.
C7_SignAuthorization ==
    [][/\ last'.op = "sign" =>
          \A k \in ContractsOf(ledger, last'.issuer, last'.materialNumber) :
            last'.op = "sign" =>
                /\ ledger[k].currentState = SIGNED => last'.result = "AlreadySigned"
                /\ (ledger[k].currentState # SIGNED /\ ledger[k].mspid # last'.mspid)
                       => last'.result = "Unauthorized"
       /\ \A k \in DOMAIN ledger' :
            (/\ ledger'[k].currentState = SIGNED
             /\ (k \in DOMAIN ledger => ledger[k].currentState # SIGNED))
            => /\ last'.op = "sign"
               /\ k \in DOMAIN ledger
               /\ ledger[k].mspid = last'.mspid]_vars

\* C8: SIGNED is terminal: every select and every sign on a contract stored
\* as SIGNED fails, and no select or sign changes its stored owner, owningOrg
\* or state.
C8_SignedTerminal ==
    [][\A k \in DOMAIN ledger :
        (ledger[k].currentState = SIGNED /\ last'.op \in {"select", "sign"})
        => /\ k \in DOMAIN ledger'
           /\ ledger'[k].owner = ledger[k].owner
           /\ ledger'[k].mspid = ledger[k].mspid
           /\ ledger'[k].currentState = ledger[k].currentState
           /\ k \in ContractsOf(ledger, last'.issuer, last'.materialNumber)
                  => last'.result # "ok"]_vars

\* a select by the stored owner of a SIGNED contract has failed
C8_Witness ==
    /\ last.op = "select"
    /\ last.result = "InvalidState"
    /\ \E k \in ContractsOf(ledger, last.issuer, last.materialNumber) :
          /\ ledger[k].currentState = SIGNED
          /\ ledger[k].owner = last.currentOwner

\* C9: no skipping: a sign by the owning organization fails with InvalidState
\* on an ISSUED contract (even with signingOwner the issuer) and on a TRADING
\* contract when signingOwner is not the issuer; a contract becomes SIGNED
\* only from TRADING.
C9_NoSkipping ==
    [][/\ last'.op = "sign" =>
          \A k \in ContractsOf(ledger, last'.issuer, last'.materialNumber) :
            (/\ last'.op = "sign"
             /\ ledger[k].mspid = last'.mspid
             /\ \/ ledger[k].currentState = ISSUED
                \/ /\ ledger[k].currentState = TRADING
                   /\ last'.signingOwner # ledger[k].issuer)
            => last'.result = "InvalidState"
       /\ \A k \in DOMAIN ledger' :
            (/\ ledger'[k].currentState = SIGNED
             /\ (k \in DOMAIN ledger => ledger[k].currentState # SIGNED))
            => (k \in DOMAIN ledger /\ ledger[k].currentState = TRADING)]_vars

\* C10: select and sign on an (issuer, materialNumber) for which no contract
\* has been issued fail with NotFound and leave the ledger as it was, with no
\* entry under that key.
C10_NotFound ==
    [][(/\ last'.op \in {"select", "sign"}
        /\ ContractsOf(ledger, last'.issuer, last'.materialNumber) = {}
        /\ KeyOf(last'.issuer, last'.materialNumber) \notin DOMAIN ledger)
       => /\ last'.result = "NotFound"
          /\ ledger' = ledger
          /\ KeyOf(last'.issuer, last'.materialNumber) \notin DOMAIN ledger']_vars

\* C11: issue fails with InvalidArgument when rewardValue is not a
\* non-negative integer (negative, or not a number), and then writes no
\* contract; so every stored contract has a non-negative integer rewardValue.
\* (Stated for an issuer with no contract in the ledger, where no other
\* failure of issue can come first.)
C11_RewardValidated ==
    [][/\ (/\ last'.op = "issue"
           /\ ~IsDecimal(last'.rewardValue)
           /\ \A k \in DOMAIN ledger : ledger[k].issuer # last'.issuer)
            => (last'.result = "InvalidArgument" /\ ledger' = ledger)
       /\ \A k \in DOMAIN ledger' :
            /\ ledger'[k].rewardValue.t = "number"
            /\ ledger'[k].rewardValue.v >= 0]_vars

\* C12: contracts of one issuer with different material numbers occupy
\* distinct keys: an issue of (I, N2) into a ledger that holds (I, N1) and
\* not (I, N2) succeeds, stores the new contract under the key of (I, N2)
\* and leaves every entry already stored as it was.
C12_DistinctKeys ==
    [][(/\ last'.op = "issue"
        /\ ContractsOf(ledger, last'.issuer, last'.materialNumber) = {}
        /\ \E k \in DOMAIN ledger : ledger[k].issuer = last'.issuer)
       => /\ last'.result = "ok"
          /\ KeyOf(last'.issuer, last'.materialNumber) \in DOMAIN ledger'
          /\ \A k \in DOMAIN ledger : k \in DOMAIN ledger' /\ ledger'[k] = ledger[k]
          /\ Cardinality(DOMAIN ledger') = Cardinality(DOMAIN ledger) + 1]_vars

\* the stored records a query has returned
RecordsOf(rows) == {r.Record : r \in rows}

\* the stored records of L that satisfy P
Stored(L, P(_)) == {L[k] : k \in {j \in DOMAIN L : P(L[j])}}

\* C13: queryPartial(issuer) returns all the stored contracts issued under
\* that issuer, whoever owns them, and no contract of another issuer.
C13_QueryPartial ==
    [][last'.op = "queryPartial" =>
        LET IssuedBy(c) == c.issuer = last'.prefix
        IN /\ last'.result = "ok"
           /\ RecordsOf(last'.rows) = Stored(ledger, IssuedBy)]_vars

\* C14: queryOwner(o) returns exactly the stored contracts whose owner field
\* is o: a contract transferred to DigiBank is returned for "DigiBank" and
\* not for "MagnetoCorp".
C14_QueryOwner ==
    [][last'.op = "queryOwner" =>
        LET OwnedBy(c) == c.owner = last'.owner
        IN /\ last'.result = "ok"
           /\ RecordsOf(last'.rows) = Stored(ledger, OwnedBy)]_vars

\* the names of the named queries
NamedQueries == {"redeemed", "trading", "value"}

\* C15: queryNamed with a name that is not one of the named queries fails
\* with UnknownNamedQuery without running a query, and no queryNamed changes
\* the ledger.
C15_UnknownNamedQuery ==
    [][last'.op = "queryNamed" =>
        /\ ledger' = ledger
        /\ last'.puts = 0
        /\ last'.queryname \notin NamedQueries =>
              /\ last'.result = "UnknownNamedQuery"
              /\ ~last'.queried
              /\ last'.rows = {}]_vars

\* a queryNamed with an unknown name has failed, on a ledger that holds a contract
C15_Witness ==
    /\ last.op = "queryNamed"
    /\ last.queryname \notin NamedQueries
    /\ last.result = "UnknownNamedQuery"
    /\ DOMAIN ledger # {}

\* C16: the named query 'trading' selects the trading state: its selector
\* matches a stored contract exactly when the contract's lifecycle state is
\* TRADING, and queryNamed("trading") returns exactly those contracts.
C16_TradingQuery ==
    [][(last'.op = "queryNamed" /\ last'.queryname = "trading") =>
        LET Trading(c) == c.currentState = TRADING
        IN /\ last'.result = "ok"
           /\ \A k \in DOMAIN ledger :
                Matches(ledger[k], NamedSelector("trading")) <=> Trading(ledger[k])
           /\ RecordsOf(last'.rows) = Stored(ledger, Trading)]_vars

\* the ledger keys whose entry a step writes: added, or stored with another value
Written ==
    {k \in DOMAIN ledger' : k \notin DOMAIN ledger \/ ledger'[k] # ledger[k]}

\* C17: failure atomicity: an issue, select or sign that ends in a failure
\* leaves the whole ledger as it was; every invocation makes at most one
\* write, touching at most one entry and removing none, and makes it only
\* when it succeeds (after all of its guards have passed).
C17_FailureAtomicity ==
    [][last'.op \in {"issue", "select", "sign"} =>
        /\ last'.result # "ok" => (ledger' = ledger /\ last'.puts = 0)
        /\ last'.puts <= 1
        /\ last'.puts = 1 => last'.result = "ok"
        /\ DOMAIN ledger \subseteq DOMAIN ledger'
        /\ Cardinality(Written) <= last'.puts]_vars

\* a select on a stored ISSUED contract has failed on the owner it was given
C17_Witness ==
    /\ last.op = "select"
    /\ last.result = "OwnershipMismatch"
    /\ last.puts = 0
    /\ KeyOf(last.issuer, last.materialNumber) \in DOMAIN ledger
    /\ ledger[KeyOf(last.issuer, last.materialNumber)].currentState = ISSUED

\* the fields of a contract a select or a sign may change
TransferFields == {"owner", "mspid", "currentState"}

C19_OwnerIsIssuer ==
    \A k \in DOMAIN ledger :
        ledger[k].currentState \in {ISSUED, SIGNED} => ledger[k].owner = ledger[k].issuer

\* a select has left a TRADING contract owned by someone other than its issuer
C19_Witness ==
    /\ last.op = "select"
    /\ last.result = "ok"
    /\ \E k \in DOMAIN ledger :
          /\ ledger[k].currentState = TRADING
          /\ ledger[k].owner # ledger[k].issuer

====
